---------------------------- MODULE Spec2Model ----------------------------
(***************************************************************************)
(* A model of the gg library: the stack based scene manager                *)
(* (src/src/scene.rs), the per-key input state table and the fixed step    *)
(* loop (src/src/event.rs), and the application loop (src/src/game.rs).    *)
(*                                                                         *)
(* A scene is a record [inst, id]: `id` is what get_id returns, `inst`     *)
(* tells the boxed objects apart (two scenes may share an id).  The hooks  *)
(* enter and leave are the counting hooks of the test scenes: they add one *)
(* to a counter, kept here per instance.  A manager value is a record      *)
(*   [scenes, entered, left, calls, panic]                                 *)
(* where `calls` lists, in order, what one handle_transition call did and  *)
(* `panic` is "" or the message of the panic! that ended the call.         *)
(***************************************************************************)
EXTENDS Integers, Sequences, FiniteSets

VARIABLES
    scenes,      \* StackSceneManager.scenes: the stack, top = last element
    entered,     \* entered[i]: enter calls received by scene instance i
    left,        \* left[i]: leave calls received by scene instance i
    calls,       \* what the last handle_transition call did, in order
    panic,       \* "" or the message of the panic! that ended the last call
    trans,       \* the transition handed to the last handle_transition call
    before,      \* [scenes, entered, left] as they were when that call began
    hist,        \* every transition applied so far, oldest first
    keys,        \* Keys.keys: the VecMap from key code to KeyState
    keysPanic,   \* "" or the message of the panic! that ended the last Keys call
    kcall,       \* the last call made on the Keys table, with its arguments
    keysBefore,  \* Keys.keys as it was when that call began
    named,       \* the keys that some update_key call has named so far
    pc,          \* where Game::kickoff is: "new" (not started) or "events"
    time_now,    \* Game.time_now
    events,      \* the key events reduced in this frame so far, in order
    prevEvents,  \* the set of key events reduced in the frame before this one
    endWas,      \* endWas[k]: what the table said of key k at the end of that frame
    hw,          \* hw[k]: whether the keyboard has key k "down" or "up", by its events
    wellFormed,  \* whether every key event so far is one a keyboard can send
    spc,         \* where step::fixed is: "idle", "check", "sleep", "dt", "now", "returned", "panicked"
    step,        \* the `step` argument of step::fixed, in nanoseconds
    el,          \* precise_time_ns() - now at the latest reading of the clock
    slept,       \* the arguments of the sleep_ms calls made so far, in order
    results,     \* what the invocations of cb returned so far, in order
    stepPanic,   \* "" or the message of the panic that ended step::fixed
    gpc,         \* where Game::kickoff is: "new", "idle" (between frames), "poll", "stopped", "panicked"
    frameNo,     \* the number of frames begun so far
    flog,        \* what the current (or latest) frame did so far, in order
    startScenes  \* the scene stack as it was when that frame began

sceneVars == <<scenes, entered, left, calls, panic, trans, before, hist>>

callVars == <<kcall, keysBefore>>

frameVars == <<pc, time_now, events, prevEvents, endWas, hw, wellFormed>>

stepVars == <<spc, step, el, slept, results, stepPanic>>

gameVars == <<gpc, frameNo, flog, startScenes>>

loopVars == <<stepVars, gameVars>>

keyVars == <<keys, keysPanic, named, callVars, frameVars>>

vars == <<sceneVars, keyVars, loopVars>>

\* Bounds of the model.
MaxTransitions == 5
MaxId == 2
MaxKey == 1
MaxTime == 2
MaxEvents == 2
MaxClock == 1
MaxCalls == 3
MaxLate == 1
MaxFrames == 2

SceneIds == 0 .. MaxId

\* `key as usize` for the key codes the model tells apart
KeyCodes == 0 .. MaxKey

\* The f64 timestamps, as whole numbers
Times == 0 .. MaxTime

\* The readings of the clock, precise_time_ns, as whole numbers
ClockTimes == 0 .. MaxClock

ElementStates == {"Pressed", "Released"}

-----------------------------------------------------------------------------
(* Sequence helpers *)

Last(s) == s[Len(s)]

Front(s) == SubSeq(s, 1, Len(s) - 1)

Range(s) == {s[i] : i \in 1 .. Len(s)}

RECURSIVE SumSeq(_)
SumSeq(s) == IF s = <<>> THEN 0 ELSE s[Len(s)] + SumSeq(Front(s))

-----------------------------------------------------------------------------
(* Scene hooks and Vec operations, each logged in `calls` *)

\* TestScene::enter: has_entered += 1
enter(m, s) ==
    [m EXCEPT !.entered[s.inst] = @ + 1,
              !.calls = Append(@, <<"enter", s.inst>>)]

\* TestScene::leave: has_left += 1
leave(m, s) ==
    [m EXCEPT !.left[s.inst] = @ + 1,
              !.calls = Append(@, <<"leave", s.inst>>)]

\* self.scenes.push(boxed_scene)
push(m, s) ==
    [m EXCEPT !.scenes = Append(@, s),
              !.calls = Append(@, <<"push", s.inst>>)]

\* self.scenes.pop() on a non-empty Vec
pop(m) ==
    [m EXCEPT !.scenes = Front(@),
              !.calls = Append(@, <<"pop", Last(m.scenes).inst>>)]

\* panic!(msg): the call ends here, with the state as it is at this point
Panic(m, msg) == [m EXCEPT !.panic = msg]

-----------------------------------------------------------------------------
(* StackSceneManager::handle_transition, one operator per match arm *)

NothingArm(m) == m

\* Mutant of PushArm: the previous top is not left.
PushArmNoLeave(m, boxed_scene) ==
    LET m2 == push(m, boxed_scene)
    IN  IF Len(m2.scenes) > 0 THEN enter(m2, Last(m2.scenes)) ELSE m2

PushArm(m, boxed_scene) ==
    LET m1 == IF Len(m.scenes) > 0 THEN leave(m, Last(m.scenes)) ELSE m
        m2 == push(m1, boxed_scene)
    IN  IF Len(m2.scenes) > 0 THEN enter(m2, Last(m2.scenes)) ELSE m2

\* Mutant of PopArm: leave is called on the top while it is still on the stack.
PopArmLeaveFirst(m) ==
    IF Len(m.scenes) > 0
    THEN pop(leave(m, Last(m.scenes)))
    ELSE m

PopArm(m) ==
    IF Len(m.scenes) > 0
    THEN LET s == Last(m.scenes) IN leave(pop(m), s)
    ELSE m

\* Mutant of PopUntilLoop: every scene removed on the way is left.
RECURSIVE PopUntilLoopLeaveEach(_, _, _)
PopUntilLoopLeaveEach(m, id, length) ==
    IF length > 0 /\ Len(m.scenes) > 0 /\ Last(m.scenes).id # id
    THEN LET s  == Last(m.scenes)
             m1 == leave(pop(m), s)
         IN  PopUntilLoopLeaveEach(m1, id, Len(m1.scenes))
    ELSE [m |-> m, length |-> length]

\* Mutant of PopUntilLoop: `while length > 1`, the last scene is never removed.
RECURSIVE PopUntilLoopKeepLast(_, _, _)
PopUntilLoopKeepLast(m, id, length) ==
    IF length > 1 /\ Len(m.scenes) > 0 /\ Last(m.scenes).id # id
    THEN LET m1 == pop(m) IN PopUntilLoopKeepLast(m1, id, Len(m1.scenes))
    ELSE [m |-> m, length |-> length]

\* Mutant of PopUntilLoop: the top is removed before its id is looked at.
RECURSIVE PopUntilLoopPopsFirst(_, _, _)
PopUntilLoopPopsFirst(m, id, length) ==
    IF length > 0 /\ Len(m.scenes) > 0
    THEN LET s  == Last(m.scenes)
             m1 == pop(m)
         IN  IF s.id = id /\ Len(m1.scenes) > 0
             THEN [m |-> m1, length |-> Len(m1.scenes)]
             ELSE PopUntilLoopPopsFirst(m1, id, Len(m1.scenes))
    ELSE [m |-> m, length |-> length]

\* The `while length > 0` loop: the result is [m, length] at loop exit.
RECURSIVE PopUntilLoop(_, _, _)
PopUntilLoop(m, id, length) ==
    IF length > 0
    THEN IF Len(m.scenes) > 0
         THEN IF Last(m.scenes).id = id
              THEN [m |-> m, length |-> length]
              ELSE LET m1 == pop(m) IN PopUntilLoop(m1, id, Len(m1.scenes))
         ELSE PopUntilLoop(m, id, Len(m.scenes))
    ELSE [m |-> m, length |-> length]

\* Mutant of PopUntilGuard: only the empty stack is refused.
PopUntilGuardEmptyOnly(length) ==
    IF length = 0 THEN "Tried to pop until on an empty stack." ELSE ""

\* The two length checks made before anything is touched: "" or the panic message.
PopUntilGuard(length) ==
    IF length = 0
    THEN "Tried to pop until on an empty stack."
    ELSE IF length = 1
    THEN "Tried to pop until a nonexistant stack with 1 element."
    ELSE ""

\* Mutant of PopUntilArm: an id that no scene has is refused before anything
\* is touched.
PopUntilArmChecksFirst(m, id) ==
    LET length == Len(m.scenes) IN
    IF PopUntilGuard(length) # ""
    THEN Panic(m, PopUntilGuard(length))
    ELSE IF \A j \in 1 .. length : m.scenes[j].id # id
    THEN Panic(m, "Emptied the stack in a PopUntil, use Quit instead if this is wanted.")
    ELSE LET m1 == IF Len(m.scenes) > 0 THEN leave(m, Last(m.scenes)) ELSE m
             r  == PopUntilLoop(m1, id, length)
         IN  IF Len(r.m.scenes) > 0
             THEN enter(r.m, Last(r.m.scenes))
             ELSE r.m

PopUntilArm(m, id) ==
    LET length == Len(m.scenes) IN
    IF PopUntilGuard(length) # ""
    THEN Panic(m, PopUntilGuard(length))
    ELSE LET m1 == IF Len(m.scenes) > 0 THEN leave(m, Last(m.scenes)) ELSE m
             r  == PopUntilLoop(m1, id, length)
         IN  IF r.length = 0
             THEN Panic(r.m, "Emptied the stack in a PopUntil, use Quit instead if this is wanted.")
             ELSE IF Len(r.m.scenes) > 0
                  THEN enter(r.m, Last(r.m.scenes))
                  ELSE r.m

\* Mutant of DefaultTick: a scene that does not override tick stays.
DefaultTickNothing == <<"Nothing">>

\* Scene::tick as the trait defines it: what a scene that does not override
\* tick returns.
DefaultTick == <<"Pop">>

handle_transition(m, t) ==
    CASE t[1] = "Nothing"  -> NothingArm(m)
      [] t[1] = "Push"     -> PushArm(m, t[2])
      [] t[1] = "Pop"      -> PopArm(m)
      [] t[1] = "PopUntil" -> PopUntilArm(m, t[2])

-----------------------------------------------------------------------------
(* The key table: src/src/event.rs *)

\* VecMap::new
EmptyMap == [k \in {} |-> TRUE]

\* The four KeyState variants, each with its f64
Pressed(t) == [variant |-> "Pressed", time |-> t]
Held(t) == [variant |-> "Held", time |-> t]
Released(t) == [variant |-> "Released", time |-> t]
NotPressed(t) == [variant |-> "NotPressed", time |-> t]

\* Keys::status
status(ks, key) == IF key \in DOMAIN ks THEN ks[key] ELSE NotPressed(0)

\* Keys::held
held(ks, key) == status(ks, key).variant \in {"Pressed", "Held"}

\* Keys::pressed
pressed(ks, key) == status(ks, key).variant = "Pressed"

\* Mutant of not_pressed: "the key is up", the complement of held.
not_pressedIsUp(ks, key) == ~(status(ks, key).variant \in {"Pressed", "Held"})

\* Keys::not_pressed
not_pressed(ks, key) == ~pressed(ks, key)

\* VecMap::insert
insert(ks, key, value) ==
    [k \in DOMAIN ks \cup {key} |-> IF k = key THEN value ELSE ks[k]]

\* Mutant of Reduce: a press of a Held key starts a new Pressed edge.
ReduceRepeatRetriggers(state, keystate, time) ==
    CASE state = "Pressed" /\ keystate.variant \in {"NotPressed", "Held"} ->
            [keystate |-> Pressed(time), panic |-> ""]
      [] state = "Released" /\ keystate.variant = "Held" ->
            [keystate |-> Released(time), panic |-> ""]
      [] OTHER ->
            [keystate |-> keystate, panic |-> "Received a pair! That shouldn't happen!"]

\* The match of update_key on (state, *keystate), for a stored key:
\* the new *keystate, and "" or the panic message.
Reduce(state, keystate, time) ==
    CASE state = "Pressed" /\ keystate.variant = "NotPressed" ->
            [keystate |-> Pressed(time), panic |-> ""]
      [] state = "Released" /\ keystate.variant = "Held" ->
            [keystate |-> Released(time), panic |-> ""]
      [] state = "Pressed" /\ keystate.variant = "Held" ->
            [keystate |-> keystate, panic |-> ""]
      [] OTHER ->
            [keystate |-> keystate, panic |-> "Received a pair! That shouldn't happen!"]

\* Keys::update_key: the new table, and "" or the panic message.  A key that
\* is not in the table is inserted as Pressed(time), whatever `state` is.
update_key(ks, key, state, time) ==
    IF key \in DOMAIN ks
    THEN LET r == Reduce(state, ks[key], time)
         IN  [keys |-> [ks EXCEPT ![key] = r.keystate], panic |-> r.panic]
    ELSE [keys |-> insert(ks, key, Pressed(time)), panic |-> ""]

\* Mutant of Advance: a Pressed key is not advanced to Held.
AdvanceKeepsPressed(value, time) ==
    CASE value.variant = "Released" -> NotPressed(time)
      [] OTHER -> value

\* Mutant of Advance: a Released key is not advanced to NotPressed.
AdvanceKeepsReleased(value, time) ==
    CASE value.variant = "Pressed" -> Held(value.time)
      [] OTHER -> value

\* Mutant of Advance: Held carries the time handed to update.
AdvanceStampsHeld(value, time) ==
    CASE value.variant = "Pressed" -> Held(time)
      [] value.variant = "Released" -> NotPressed(time)
      [] OTHER -> value

\* The match of update on one *value.  In the arm `KeyState::Pressed(time)`
\* the pattern binds a new `time`, the key's own: Held carries that one.
Advance(value, time) ==
    CASE value.variant = "Pressed" -> Held(value.time)
      [] value.variant = "Released" -> NotPressed(time)
      [] OTHER -> value

\* Mutant of update: every key code gets an entry, NotPressed if it had none.
updateMaterializes(ks, time) ==
    [k \in KeyCodes |-> IF k \in DOMAIN ks THEN Advance(ks[k], time) ELSE NotPressed(time)]

\* Keys::update
update(ks, time) == [k \in DOMAIN ks |-> Advance(ks[k], time)]

-----------------------------------------------------------------------------
(* The scene manager as a state machine *)

\* StackSceneManager::new: an empty stack; no call has been made yet.
InitScene ==
    /\ scenes = <<>>
    /\ entered = <<>>
    /\ left = <<>>
    /\ calls = <<>>
    /\ panic = ""
    /\ trans = <<"None">>
    /\ before = [scenes |-> <<>>, entered |-> <<>>, left |-> <<>>]
    /\ hist = <<>>

\* Keys::new: an empty table; no call has been made on it yet.
InitKeys ==
    /\ keys = EmptyMap
    /\ keysPanic = ""
    /\ kcall = <<"new">>
    /\ keysBefore = EmptyMap
    /\ named = {}
    /\ pc = "new"
    /\ time_now = 0
    /\ events = <<>>
    /\ prevEvents = {}
    /\ endWas = [k \in KeyCodes |-> "Absent"]
    /\ hw = [k \in KeyCodes |-> "up"]
    /\ wellFormed = TRUE

\* step::fixed has not been called yet.
InitStep ==
    /\ spc = "idle"
    /\ step = 0
    /\ el = 0
    /\ slept = <<>>
    /\ results = <<>>
    /\ stepPanic = ""

\* Game::new: kickoff has not been called yet.
InitGame ==
    /\ gpc = "new"
    /\ frameNo = 0
    /\ flog = <<>>
    /\ startScenes = <<>>

Init == InitScene /\ InitKeys /\ InitStep /\ InitGame

\* Box::new(scene): a fresh instance, its counters at 0.
NewScene(id) == [inst |-> Len(entered) + 1, id |-> id]

\* mgr.handle_transition(t).  A panic ends the program: nothing follows it.
HandleTransition(t) ==
    /\ panic = ""
    /\ Len(hist) < MaxTransitions
    /\ LET fresh == t[1] = "Push"
           m0 == [scenes  |-> scenes,
                  entered |-> IF fresh THEN Append(entered, 0) ELSE entered,
                  left    |-> IF fresh THEN Append(left, 0) ELSE left,
                  calls   |-> <<>>,
                  panic   |-> ""]
           m  == handle_transition(m0, t)
       IN  /\ scenes' = m.scenes
           /\ entered' = m.entered
           /\ left' = m.left
           /\ calls' = m.calls
           /\ panic' = m.panic
           /\ before' = [scenes |-> scenes, entered |-> m0.entered, left |-> m0.left]
    /\ trans' = t
    /\ hist' = Append(hist, t)
    /\ UNCHANGED <<keyVars, loopVars>>

HandleNothing == HandleTransition(<<"Nothing">>)

HandlePush(id) == HandleTransition(<<"Push", NewScene(id)>>)

HandlePop == HandleTransition(<<"Pop">>)

HandlePopUntil(id) == HandleTransition(<<"PopUntil", id>>)

\* The top scene is one that does not override tick: the driver ticks it and
\* hands the transition it returns to the manager.
TickDefaultScene ==
    /\ scenes # <<>>
    /\ HandleTransition(DefaultTick)

NextScene ==
    \/ HandleNothing
    \/ \E id \in SceneIds : HandlePush(id)
    \/ HandlePop
    \/ \E id \in SceneIds : HandlePopUntil(id)
    \/ TickDefaultScene

SpecScene == Init /\ [][NextScene]_vars

-----------------------------------------------------------------------------
(* The key table as a state machine: any call of update and update_key *)

\* keys.update(time)
Update(time) ==
    /\ keysPanic = ""
    /\ keys' = update(keys, time)
    /\ kcall' = <<"update", time>>
    /\ keysBefore' = keys
    /\ UNCHANGED <<keysPanic, named, frameVars, sceneVars, loopVars>>

\* keys.update_key(key, state, time).  A panic ends the program.
UpdateKey(key, state, time) ==
    /\ keysPanic = ""
    /\ LET r == update_key(keys, key, state, time)
       IN  /\ keys' = r.keys
           /\ keysPanic' = r.panic
    /\ kcall' = <<"update_key", key, state, time>>
    /\ keysBefore' = keys
    /\ named' = named \cup {key}
    /\ UNCHANGED <<frameVars, sceneVars, loopVars>>

NextKeys ==
    \/ \E time \in Times : Update(time)
    \/ \E key \in KeyCodes, state \in ElementStates, time \in Times :
          UpdateKey(key, state, time)

SpecKeys == Init /\ [][NextKeys]_vars

-----------------------------------------------------------------------------
(* The key table as Game::kickoff drives it.  A frame is one update         *)
(* followed by the update_key calls for the frame's keyboard events.        *)

\* What the table says of `key`: "Absent" or the variant stored.
Was(ks, key) == IF key \in DOMAIN ks THEN ks[key].variant ELSE "Absent"

\* The events a keyboard sends for one key alternate press, release, press,
\* ... beginning with a press, and a press may be repeated while the key is
\* down: the only event it cannot send is a release of a key that is up.
IsHardwareEvent(h, key, state) == ~(state = "Released" /\ h[key] = "up")

AfterEvent(state) == IF state = "Pressed" THEN "down" ELSE "up"

\* A frame begins: time_now is read from the clock, which never goes back,
\* and the keys are advanced.  What the frame before left is kept.
BeginFrame(now) ==
    /\ keysPanic = ""
    /\ now >= time_now
    /\ time_now' = now
    /\ keys' = update(keys, now)
    /\ pc' = "events"
    /\ endWas' = [k \in KeyCodes |-> Was(keys, k)]
    /\ prevEvents' = Range(events)
    /\ events' = <<>>
    /\ UNCHANGED <<keysPanic, named, hw, wellFormed, callVars, sceneVars, loopVars>>

\* One Event::KeyboardInput(state, _, Some(key)) of poll_events is reduced.
\* A panic ends the program.
ReduceEvent(key, state) ==
    /\ keysPanic = ""
    /\ pc = "events"
    /\ Len(events) < MaxEvents
    /\ LET r == update_key(keys, key, state, time_now)
       IN  /\ keys' = r.keys
           /\ keysPanic' = r.panic
    /\ events' = Append(events, [key |-> key, edge |-> state, was |-> Was(keys, key)])
    /\ named' = named \cup {key}
    /\ wellFormed' = (wellFormed /\ IsHardwareEvent(hw, key, state))
    /\ hw' = IF wellFormed' THEN [hw EXCEPT ![key] = AfterEvent(state)] ELSE hw
    /\ UNCHANGED <<pc, time_now, prevEvents, endWas, callVars, sceneVars, loopVars>>

NextFrames ==
    \/ \E now \in ClockTimes : BeginFrame(now)
    \/ \E key \in KeyCodes, state \in ElementStates : ReduceEvent(key, state)

SpecFrames == Init /\ [][NextFrames]_vars

-----------------------------------------------------------------------------
(* step::fixed, the loop that calls `cb` once per step: src/src/event.rs.   *)
(* Time is kept as `el`, the nanoseconds from `now` to the latest reading   *)
(* of the clock; the clock never goes back.                                 *)

\* The step that fixed_60 hands to fixed.
Fixed60Step == 16666

\* The steps fixed is called with: by test_fixed_step and by fixed_60.
Steps == {1000, Fixed60Step}

StepResults == {"Continue", "Stop"}

\* The two ways the crate is built: with overflow checks (debug) or without.
Builds == {"debug", "release"}

\* What precise_time_ns() - now may read for a given step: just after `now`,
\* just before the step is over, exactly then, and up to MaxLate ns later.
Readings(s) == {0, 1, s - 1, s} \cup {s + d : d \in 1 .. MaxLate}

\* (step - elapsed) as u32 / 1000 in u64 arithmetic without overflow checks:
\* a negative difference -d wraps to 2^64 - d, its low 32 bits are 2^32 - d,
\* and 2^32 = 4294967 * 1000 + 296.
SleepArg(s, elapsed) ==
    IF elapsed <= s
    THEN (s - elapsed) \div 1000
    ELSE 4294967 + ((296 - (elapsed - s)) \div 1000)

\* Whether step - elapsed overflows u64.
Overflows(s, elapsed) == elapsed > s

\* What the loop does with the result of cb: break on Stop, else go on.
AfterCb(res) == IF res = "Stop" THEN "returned" ELSE "now"

\* step::fixed(s, cb) is called: let mut now = precise_time_ns()
Fixed(s) ==
    /\ spc = "idle"
    /\ spc' = "check"
    /\ step' = s
    /\ el' = 0
    /\ UNCHANGED <<slept, results, stepPanic, sceneVars, keyVars, gameVars>>

\* if precise_time_ns() - now < step
CheckElapsed(r) ==
    /\ spc = "check"
    /\ r >= el
    /\ el' = r
    /\ spc' = IF r < step THEN "sleep" ELSE "dt"
    /\ UNCHANGED <<step, slept, results, stepPanic, sceneVars, keyVars, gameVars>>

\* thread::sleep_ms((step - (precise_time_ns() - now)) as u32 / 1000): the
\* clock is read again; a subtraction that overflows panics in a build with
\* overflow checks and wraps in one without.  The sleep ends at some later
\* reading of the clock.
Sleep(r, build) ==
    /\ spc = "sleep"
    /\ r >= el
    /\ el' = r
    /\ IF Overflows(step, r) /\ build = "debug"
       THEN /\ stepPanic' = "attempt to subtract with overflow"
            /\ spc' = "panicked"
            /\ UNCHANGED slept
       ELSE /\ slept' = Append(slept, SleepArg(step, r))
            /\ spc' = "dt"
            /\ UNCHANGED stepPanic
    /\ UNCHANGED <<step, results, sceneVars, keyVars, gameVars>>

\* let dt = precise_time_ns() - now; if let Stop = cb(dt) { break; }
CallCb(r, res) ==
    /\ spc = "dt"
    /\ Len(results) < MaxCalls
    /\ r >= el
    /\ el' = r
    /\ results' = Append(results, res)
    /\ spc' = AfterCb(res)
    /\ UNCHANGED <<step, slept, stepPanic, sceneVars, keyVars, gameVars>>

\* now = precise_time_ns(), and the loop begins again
ReadNow ==
    /\ spc = "now"
    /\ el' = 0
    /\ spc' = "check"
    /\ UNCHANGED <<step, slept, results, stepPanic, sceneVars, keyVars, gameVars>>

NextStep ==
    \/ \E s \in Steps : Fixed(s)
    \/ \E r \in Readings(step) : CheckElapsed(r)
    \/ \E r \in Readings(step), build \in Builds : Sleep(r, build)
    \/ \E r \in Readings(step), res \in StepResults : CallCb(r, res)
    \/ ReadNow

SpecStep == Init /\ [][NextStep]_vars

-----------------------------------------------------------------------------
(* Game::kickoff: src/src/game.rs.  The closure handed to fixed_60 is one   *)
(* frame; `flog` lists what the frame did.  The methods update and display  *)
(* of the scene manager are not part of the sources: they are modelled as   *)
(* the specification describes them.                                        *)

\* Scene::keypress on scene s
keypress(m, s) == [m EXCEPT !.calls = Append(@, <<"keypress", s.inst>>)]

\* Scene::tick on scene s, which returns the transition t
tick(m, s, t) == [m EXCEPT !.calls = Append(@, <<"tick", s.inst>>)]

\* Scene::display on scene s
display(m, s) == [m EXCEPT !.calls = Append(@, <<"display", s.inst>>)]

\* scene_mgr.update(dt, &keys): keypress, then tick, on the top scene, and
\* the transition that tick returned is applied.  Nothing on an empty stack.
scene_mgr_update(m, t) ==
    IF Len(m.scenes) = 0
    THEN m
    ELSE LET top == Last(m.scenes)
             m1  == tick(keypress(m, top), top, t)
             m2  == [m1 EXCEPT !.calls = Append(@, <<"transition", t[1]>>)]
         IN  handle_transition(m2, t)

\* scene_mgr.display(&display): display on the top scene.
scene_mgr_display(m) ==
    IF Len(m.scenes) = 0 THEN m ELSE display(m, Last(m.scenes))

\* Mutant of FrameResult: the frame goes on to display whatever the stack holds.
FrameResultAlwaysContinues(length) == "Continue"

\* if self.scene_mgr.get_scenes().len() == 0 { return Stop; } ... return Continue
FrameResult(length) == IF length = 0 THEN "Stop" ELSE "Continue"

\* The transitions a tick may return to a manager in state (scenes, entered).
Transitions ==
    {<<"Nothing">>, <<"Pop">>}
        \cup {<<"Push", NewScene(id)>> : id \in SceneIds}
        \cup {<<"PopUntil", id>> : id \in SceneIds}

\* The keys whose events the window reports to the game: update_key reads
\* and writes the entry of the key it names and no other, so one key shows
\* every outcome.
GameKeys == {0}

\* The positions of the entries of kind `tag` in the frame log.
At(tag) == {i \in 1 .. Len(flog) : flog[i][1] = tag}

\* The events of the frame polled so far, Closed apart.
Polled(log) == Len(SelectSeq(log, LAMBDA e : e[1] \in {"update_key", "other"}))

\* StackSceneManager::with_scene(state, scene), handed to Game::new
WithScene(id) ==
    /\ gpc = "new"
    /\ scenes = <<>>
    /\ entered = <<>>
    /\ LET m0 == [scenes |-> scenes, entered |-> <<0>>, left |-> <<0>>,
                  calls |-> <<>>, panic |-> ""]
           m  == handle_transition(m0, <<"Push", NewScene(id)>>)
       IN  /\ scenes' = m.scenes
           /\ entered' = m.entered
           /\ left' = m.left
    /\ UNCHANGED <<calls, panic, trans, before, hist, keyVars, loopVars>>

\* game.kickoff(): fixed_60 is entered
Kickoff ==
    /\ gpc = "new"
    /\ gpc' = "idle"
    /\ UNCHANGED <<frameNo, flog, startScenes, stepVars, sceneVars, keyVars>>

\* Mutant of BeginGameFrame: the keys are not advanced.
BeginGameFrameNoAdvance(now) ==
    /\ gpc = "idle"
    /\ frameNo < MaxFrames
    /\ now >= time_now
    /\ time_now' = now
    /\ frameNo' = frameNo + 1
    /\ flog' = <<>>
    /\ startScenes' = scenes
    /\ gpc' = "poll"
    /\ UNCHANGED <<keys, keysPanic, named, callVars, pc, events, prevEvents, endWas,
                   hw, wellFormed, stepVars, sceneVars>>

\* fixed calls the closure: time_now is read and the keys are advanced.
BeginGameFrame(now) ==
    /\ gpc = "idle"
    /\ frameNo < MaxFrames
    /\ now >= time_now
    /\ time_now' = now
    /\ keys' = update(keys, now)
    /\ frameNo' = frameNo + 1
    /\ flog' = << <<"update">> >>
    /\ startScenes' = scenes
    /\ gpc' = "poll"
    /\ UNCHANGED <<keysPanic, named, callVars, pc, events, prevEvents, endWas,
                   hw, wellFormed, stepVars, sceneVars>>

\* poll_events yields Event::KeyboardInput(state, _, Some(key)).  A panic of
\* update_key ends the program.
PollKey(key, state) ==
    /\ gpc = "poll"
    /\ Polled(flog) < MaxEvents
    /\ LET r == update_key(keys, key, state, time_now)
       IN  /\ keys' = r.keys
           /\ keysPanic' = r.panic
           /\ gpc' = IF r.panic # "" THEN "panicked" ELSE "poll"
    /\ named' = named \cup {key}
    /\ flog' = Append(flog, <<"update_key">>)
    /\ UNCHANGED <<frameNo, startScenes, callVars, frameVars, stepVars, sceneVars>>

\* poll_events yields an event of another kind: `_ => ()`
PollOther ==
    /\ gpc = "poll"
    /\ Polled(flog) < MaxEvents
    /\ flog' = Append(flog, <<"other">>)
    /\ UNCHANGED <<gpc, frameNo, startScenes, stepVars, sceneVars, keyVars>>

\* Mutant of PollClosed: the Closed event is noted and the frame goes on.
PollClosedGoesOn(rest) ==
    /\ gpc = "poll"
    /\ At("closed") = {}
    /\ rest <= MaxEvents - Polled(flog)
    /\ flog' = Append(flog, <<"closed", rest>>)
    /\ UNCHANGED <<gpc, frameNo, startScenes, stepVars, sceneVars, keyVars>>

\* poll_events yields Event::Closed, with `rest` more events pending behind
\* it: return StepResult::Stop, and fixed breaks.
PollClosed(rest) ==
    /\ gpc = "poll"
    /\ rest <= MaxEvents - Polled(flog)
    /\ flog' = Append(flog, <<"closed", rest>>)
    /\ gpc' = "stopped"
    /\ UNCHANGED <<frameNo, startScenes, stepVars, sceneVars, keyVars>>

\* poll_events is exhausted: the scenes are updated (the top scene's tick
\* returns t), and the frame ends with Stop on an empty stack, or with
\* display and Continue.  A panic of handle_transition ends the program.
UpdateScenes(t) ==
    /\ gpc = "poll"
    /\ Len(scenes) = 0 => t = <<"Nothing">>
    /\ LET fresh == t[1] = "Push"
           m0 == [scenes  |-> scenes,
                  entered |-> IF fresh THEN Append(entered, 0) ELSE entered,
                  left    |-> IF fresh THEN Append(left, 0) ELSE left,
                  calls   |-> <<>>,
                  panic   |-> ""]
           m1 == scene_mgr_update(m0, t)
           m2 == IF m1.panic = "" /\ FrameResult(Len(m1.scenes)) = "Continue"
                 THEN scene_mgr_display(m1)
                 ELSE m1
       IN  /\ scenes' = m2.scenes
           /\ entered' = m2.entered
           /\ left' = m2.left
           /\ panic' = m2.panic
           /\ flog' = flog \o m2.calls
           /\ gpc' = IF m1.panic # "" THEN "panicked"
                     ELSE IF FrameResult(Len(m1.scenes)) = "Stop" THEN "stopped"
                     ELSE "idle"
    /\ UNCHANGED <<frameNo, startScenes, calls, trans, before, hist, stepVars, keyVars>>

\* Between two frames the subtraction in fixed overflows, in a build with
\* overflow checks: the program ends.
LoopPanics ==
    /\ gpc = "idle"
    /\ gpc' = "panicked"
    /\ stepPanic' = "attempt to subtract with overflow"
    /\ UNCHANGED <<frameNo, flog, startScenes, spc, step, el, slept, results,
                   sceneVars, keyVars>>

NextGame ==
    \/ \E id \in SceneIds : WithScene(id)
    \/ Kickoff
    \/ \E now \in ClockTimes : BeginGameFrame(now)
    \/ \E key \in GameKeys, state \in ElementStates : PollKey(key, state)
    \/ PollOther
    \/ \E rest \in 0 .. MaxEvents : PollClosed(rest)
    \/ \E t \in Transitions : UpdateScenes(t)
    \/ LoopPanics

SpecGame == Init /\ [][NextGame]_vars

-----------------------------------------------------------------------------
(* Vocabulary of the scene claims *)

IsHook(e) == e[1] \in {"enter", "leave"}

\* The enter and leave calls of a call log, in order.
Hooks(c) == SelectSeq(c, IsHook)

Instances == 1 .. Len(entered)

IsTop(i) == scenes # <<>> /\ Last(scenes).inst = i

OnlyKinds(h, kinds) == \A i \in 1 .. Len(h) : h[i][1] \in kinds

DistinctIds(st) ==
    \A i, j \in 1 .. Len(st) : st[i].id = st[j].id => i = j

\* The counters after a call: those before it, plus one enter for each
\* instance of `ent` and one leave for each instance of `lef`.
CountersAre(ent, lef) ==
    /\ Len(entered) = Len(before.entered)
    /\ Len(left) = Len(before.left)
    /\ \A i \in Instances :
          /\ entered[i] = before.entered[i] + (IF i \in ent THEN 1 ELSE 0)
          /\ left[i] = before.left[i] + (IF i \in lef THEN 1 ELSE 0)

\* The pops of the scenes st[hi], st[hi-1], ..., st[lo], in that order.
PopsOf(st, hi, lo) == [k \in 1 .. (hi - lo + 1) |-> <<"pop", st[hi - k + 1].inst>>]

\* hist is n Pushes of scenes with distinct ids, then PopUntil(id of the first).
IsPushChainThenPopUntilBottom ==
    /\ Len(hist) >= 3
    /\ OnlyKinds(Front(hist), {"Push"})
    /\ DistinctIds([i \in 1 .. Len(hist) - 1 |-> hist[i][2]])
    /\ Last(hist) = <<"PopUntil", hist[1][2].id>>

\* hist is a Push onto the empty stack, then only Nothing, then a Pop.
IsPushNothingPop ==
    /\ Len(hist) >= 2
    /\ hist[1][1] = "Push"
    /\ Last(hist)[1] = "Pop"
    /\ \A i \in 2 .. Len(hist) - 1 : hist[i][1] = "Nothing"

-----------------------------------------------------------------------------
(* Claims about the scene manager *)

\* C1: after any sequence of Push and Pop transitions, every scene instance
\* has received at least as many enter calls as leave calls and at most one
\* more, and it is the top of the stack exactly when it has received one more
\* enter than leave.
C1_EnterLeaveBalanced ==
    OnlyKinds(hist, {"Push", "Pop"}) =>
        \A i \in Instances :
            /\ entered[i] >= left[i]
            /\ entered[i] - left[i] <= 1
            /\ IsTop(i) <=> (entered[i] - left[i] = 1)

\* C2: when Pop removes the top of a stack of at least 2 scenes, the scene
\* that becomes the top has its enter hook called by that call.
C2_PopEntersExposedScene ==
    (trans[1] = "Pop" /\ Len(before.scenes) >= 2) =>
        /\ scenes # <<>>
        /\ <<"enter", Last(scenes).inst>> \in Range(calls)
        /\ entered[Last(scenes).inst] = before.entered[Last(scenes).inst] + 1

\* C3: Push(new) leaves the previous top (if any) exactly once and before
\* new.enter, appends new, enters new exactly once, grows the stack by one,
\* keeps every earlier scene in place and calls no hook on any other scene.
C3_PushLeavesTopThenEntersNew ==
    trans[1] = "Push" =>
        LET new  == trans[2]
            old  == before.scenes
            tops == IF old = <<>> THEN {} ELSE {Last(old).inst}
        IN  /\ panic = ""
            /\ scenes = Append(old, new)
            /\ Len(scenes) = Len(old) + 1
            /\ calls = (IF old = <<>> THEN <<>> ELSE << <<"leave", Last(old).inst>> >>)
                          \o << <<"push", new.inst>>, <<"enter", new.inst>> >>
            /\ CountersAre({new.inst}, tops)

\* C3 witness: a Push onto a stack that already holds two scenes.
C3_Witness ==
    /\ trans[1] = "Push"
    /\ Len(before.scenes) = 2
    /\ Len(scenes) = 3
    /\ left[Last(before.scenes).inst] = 1

\* C4: Pop on a non-empty stack removes exactly the top and then calls leave
\* on it once, the scenes below staying in place; on an empty stack it does
\* nothing and raises no error.  A scene pushed onto the empty stack and
\* popped, with only Nothing in between, ends with an empty stack, one enter
\* and one leave.
C4_PopRemovesTopThenLeaves ==
    /\ trans[1] = "Pop" =>
          LET old == before.scenes IN
          /\ panic = ""
          /\ IF old # <<>>
             THEN /\ scenes = Front(old)
                  /\ calls = << <<"pop", Last(old).inst>>, <<"leave", Last(old).inst>> >>
                  /\ CountersAre({}, {Last(old).inst})
             ELSE /\ scenes = <<>>
                  /\ calls = <<>>
                  /\ CountersAre({}, {})
    /\ IsPushNothingPop =>
          /\ Len(scenes) = 0
          /\ SumSeq(entered) = 1
          /\ SumSeq(left) = 1

\* C4 witness: Push, Nothing, Pop as in the test enter_leave_scene_manager.
C4_Witness ==
    /\ IsPushNothingPop
    /\ Len(hist) = 3
    /\ Len(scenes) = 0
    /\ SumSeq(left) = 1

\* C5: on a stack of scenes with distinct ids, PopUntil(id) for a scene
\* strictly below the top removes exactly the scenes above it, calls leave
\* once (on the original top, never on the scenes in between) and then enter
\* once on the target, the new top.  n Pushes followed by PopUntil(bottom id)
\* end with the stack [bottom], n + 1 enter calls and n leave calls.
C5_PopUntilBelowTop ==
    /\ \A j \in 1 .. Len(before.scenes) - 1 :
          (/\ trans[1] = "PopUntil"
           /\ DistinctIds(before.scenes)
           /\ before.scenes[j].id = trans[2]) =>
              LET old == before.scenes IN
              /\ panic = ""
              /\ scenes = SubSeq(old, 1, j)
              /\ calls = << <<"leave", Last(old).inst>> >>
                            \o PopsOf(old, Len(old), j + 1)
                            \o << <<"enter", old[j].inst>> >>
              /\ Hooks(calls) = << <<"leave", Last(old).inst>>, <<"enter", old[j].inst>> >>
              /\ CountersAre({old[j].inst}, {Last(old).inst})
    /\ IsPushChainThenPopUntilBottom =>
          /\ scenes = << hist[1][2] >>
          /\ SumSeq(entered) = Len(hist)
          /\ SumSeq(left) = Len(hist) - 1

\* C5 witness: three Pushes and PopUntil(bottom id), as in the test
\* popuntil_manager: 4 enter calls, 3 leave calls, one scene left.
C5_Witness ==
    /\ IsPushChainThenPopUntilBottom
    /\ Len(hist) = 4
    /\ Len(scenes) = 1
    /\ SumSeq(entered) = 4
    /\ SumSeq(left) = 3

\* C6: PopUntil(id) on a stack of 0 or 1 scenes panics for every id, before
\* anything is changed: no scene is removed and no hook is called.
C6_PopUntilNeedsTwoScenes ==
    (trans[1] = "PopUntil" /\ Len(before.scenes) <= 1) =>
        /\ panic # ""
        /\ scenes = before.scenes
        /\ calls = <<>>
        /\ entered = before.entered
        /\ left = before.left

\* C6 witness: PopUntil with the id of the only scene on the stack.
C6_Witness ==
    /\ trans[1] = "PopUntil"
    /\ Len(before.scenes) = 1
    /\ before.scenes[1].id = trans[2]
    /\ panic # ""

\* C7: PopUntil(id) on a stack of 2 or more scenes none of which has that id
\* panics: the removal loop ends (after one removal per scene), the call does
\* not return normally and enter is called on no scene.
C7_PopUntilAbsentIdPanics ==
    (/\ trans[1] = "PopUntil"
     /\ Len(before.scenes) >= 2
     /\ \A j \in 1 .. Len(before.scenes) : before.scenes[j].id # trans[2]) =>
        /\ panic # ""
        /\ \A e \in Range(calls) : e[1] # "enter"
        /\ entered = before.entered
        /\ Len(SelectSeq(calls, LAMBDA e : e[1] = "pop")) = Len(before.scenes)

\* C7 witness: PopUntil of an id that none of three stacked scenes has.
C7_Witness ==
    /\ trans[1] = "PopUntil"
    /\ Len(before.scenes) = 3
    /\ \A j \in 1 .. 3 : before.scenes[j].id # trans[2]
    /\ panic # ""

-----------------------------------------------------------------------------
(* Vocabulary of the key claims *)

\* Event e takes key k down: a press that is not the repeat of a held key.
IsPress(e, k) == e.key = k /\ e.edge = "Pressed" /\ e.was # "Held"

\* Event e is a press event of key k, first or repeated.
IsPressEvent(e, k) == e.key = k /\ e.edge = "Pressed"

\* Event e is a release event of key k.
IsReleaseEvent(e, k) == e.key = k /\ e.edge = "Released"

\* Event e releases key k while it is Held.
IsReleaseOfHeld(e, k) == IsReleaseEvent(e, k) /\ e.was = "Held"

-----------------------------------------------------------------------------
(* Claims about the key table *)

\* C8: in every accepted event sequence, a press of key k reduced in a frame
\* makes pressed(k) true for the rest of that frame; in the next frame, as
\* long as no release of k is reduced, held(k) is true and pressed(k) false;
\* pressed(k) is never true at the end of two consecutive frames.
C8_PressedLastsOneFrame ==
    keysPanic = "" =>
        \A k \in KeyCodes :
            /\ (\E e \in Range(events) : IsPress(e, k)) => pressed(keys, k)
            /\ (/\ \E e \in prevEvents : IsPress(e, k)
                /\ ~ \E e \in Range(events) : IsReleaseEvent(e, k)) =>
                    (held(keys, k) /\ ~pressed(keys, k))
            /\ ~(endWas[k] = "Pressed" /\ pressed(keys, k))

\* C8 witness: the frame after the one that reduced the press of a key,
\* another press of it repeated: the key is held and no longer pressed.
C8_Witness ==
    /\ keysPanic = ""
    /\ \E k \in KeyCodes :
          /\ \E e \in prevEvents : IsPress(e, k)
          /\ \E e \in Range(events) : IsPressEvent(e, k)
          /\ endWas[k] = "Pressed"
          /\ held(keys, k)
          /\ ~pressed(keys, k)

\* C9: in every accepted event sequence, a release of key k reduced while k
\* is Held makes k Released for the rest of that frame; in the next frame k
\* is NotPressed and it stays NotPressed, frame after frame, until a press of
\* k is reduced; k is never Released at the end of two consecutive frames.
C9_ReleasedLastsOneFrame ==
    keysPanic = "" =>
        \A k \in KeyCodes :
            /\ (\E e \in Range(events) : IsReleaseOfHeld(e, k)) =>
                    status(keys, k).variant = "Released"
            /\ (/\ \E e \in prevEvents : IsReleaseOfHeld(e, k)
                /\ ~ \E e \in Range(events) : IsPressEvent(e, k)) =>
                    status(keys, k).variant = "NotPressed"
            /\ (/\ endWas[k] = "NotPressed"
                /\ ~ \E e \in Range(events) : IsPressEvent(e, k)) =>
                    status(keys, k).variant = "NotPressed"
            /\ ~(endWas[k] = "Released" /\ status(keys, k).variant = "Released")

\* C9 witness: the frame after the one that reduced the release of a held
\* key: the key is NotPressed, stamped with that frame's time.
C9_Witness ==
    /\ keysPanic = ""
    /\ \E k \in KeyCodes :
          /\ \E e \in prevEvents : IsReleaseOfHeld(e, k)
          /\ endWas[k] = "Released"
          /\ status(keys, k) = NotPressed(time_now)
          /\ time_now > 0

\* C10: for a key already in the table, update_key(key, edge, timestamp)
\* gives: NotPressed + pressed -> Pressed(timestamp); Held + released ->
\* Released(timestamp); Held + pressed -> unchanged; every other pair is a
\* panic that changes no key.  No update_key call changes another key.
C10_ReducerTable ==
    kcall[1] = "update_key" =>
        LET key   == kcall[2]
            edge  == kcall[3]
            stamp == kcall[4]
        IN  /\ key \in DOMAIN keysBefore =>
                LET old == keysBefore[key] IN
                CASE edge = "Pressed" /\ old.variant = "NotPressed" ->
                        keysPanic = "" /\ keys[key] = Pressed(stamp)
                  [] edge = "Released" /\ old.variant = "Held" ->
                        keysPanic = "" /\ keys[key] = Released(stamp)
                  [] edge = "Pressed" /\ old.variant = "Held" ->
                        keysPanic = "" /\ keys[key] = old
                  [] OTHER ->
                        keysPanic # "" /\ keys = keysBefore
            /\ \A k \in KeyCodes \ {key} :
                  /\ k \in DOMAIN keys <=> k \in DOMAIN keysBefore
                  /\ status(keys, k) = status(keysBefore, k)

\* C10 witness: a repeated press of a Held key, with a new timestamp, while
\* another key is stored: nothing changes.
C10_Witness ==
    /\ kcall[1] = "update_key"
    /\ kcall[3] = "Pressed"
    /\ kcall[2] \in DOMAIN keysBefore
    /\ keysBefore[kcall[2]].variant = "Held"
    /\ keysBefore[kcall[2]].time # kcall[4]
    /\ keys = keysBefore
    /\ Cardinality(DOMAIN keys) >= 2
    /\ keysPanic = ""

\* C11 as claimed: update(timestamp) turns Pressed(_) into Held(timestamp)
\* and Released(_) into NotPressed(timestamp), leaves Held and NotPressed
\* keys as they are, and adds or removes no key.
C11_UpdateStampsBoth ==
    kcall[1] = "update" =>
        /\ DOMAIN keys = DOMAIN keysBefore
        /\ \A k \in DOMAIN keysBefore :
              LET old == keysBefore[k] IN
              CASE old.variant = "Pressed"  -> keys[k] = Held(kcall[2])
                [] old.variant = "Released" -> keys[k] = NotPressed(kcall[2])
                [] OTHER -> keys[k] = old

\* C11 amended: update(timestamp) turns Pressed(t) into Held(t), keeping the
\* timestamp of the press, and Released(_) into NotPressed(timestamp); Held
\* and NotPressed keys are unchanged; no key is added or removed.
C11_UpdateKeepsPressTime ==
    kcall[1] = "update" =>
        /\ DOMAIN keys = DOMAIN keysBefore
        /\ \A k \in DOMAIN keysBefore :
              LET old == keysBefore[k] IN
              CASE old.variant = "Pressed"  -> keys[k] = Held(old.time)
                [] old.variant = "Released" -> keys[k] = NotPressed(kcall[2])
                [] OTHER -> keys[k] = old

\* C11 witness: an update, at a time other than that of the press, of a table
\* with a Pressed key: the key is Held with the time of the press.
C11_Witness ==
    /\ kcall[1] = "update"
    /\ \E k \in DOMAIN keysBefore :
          /\ keysBefore[k].variant = "Pressed"
          /\ keysBefore[k].time # kcall[2]
          /\ keys[k] = Held(keysBefore[k].time)
    /\ \E k \in DOMAIN keysBefore :
          /\ keysBefore[k].variant = "Released"
          /\ keysBefore[k].time # kcall[2]
          /\ keys[k] = NotPressed(kcall[2])

\* C12: a key that no update_key call has named has status NotPressed(0), is
\* neither held nor pressed, and has no entry in the table, whatever update
\* and update_key calls were made for other keys.
C12_UnobservedKeyIsDefault ==
    \A k \in KeyCodes \ named :
        /\ status(keys, k) = NotPressed(0)
        /\ ~held(keys, k)
        /\ ~pressed(keys, k)
        /\ k \notin DOMAIN keys

\* C12 witness: after an update at a time other than 0 that advanced another,
\* stored key, some key is still unnamed.
C12_Witness ==
    /\ kcall[1] = "update"
    /\ kcall[2] # 0
    /\ keys # keysBefore
    /\ named # {}
    /\ KeyCodes \ named # {}

\* C16: a key never seen before behaves under update_key like a stored
\* NotPressed key: a press gives Pressed(timestamp); a release is rejected
\* with a panic and does not leave the key down.
C16_AbsentKeyLikeNotPressed ==
    (kcall[1] = "update_key" /\ kcall[2] \notin DOMAIN keysBefore) =>
        LET key == kcall[2] IN
        /\ kcall[3] = "Pressed" =>
              (keysPanic = "" /\ status(keys, key) = Pressed(kcall[4]))
        /\ kcall[3] = "Released" =>
              (keysPanic # "" /\ ~held(keys, key))

PopUntilOfAbsentId ==
    /\ trans[1] = "PopUntil"
    /\ Len(before.scenes) >= 2
    /\ \A j \in 1 .. Len(before.scenes) : before.scenes[j].id # trans[2]

\* C17 as claimed: when PopUntil(id) fails because no scene of a stack of 2
\* or more has the id, the stack and every enter/leave count are as before
\* the call.
C17_FailedPopUntilChangesNothing ==
    PopUntilOfAbsentId =>
        /\ scenes = before.scenes
        /\ entered = before.entered
        /\ left = before.left

\* C17 amended: when PopUntil(id) fails because no scene of a stack of 2 or
\* more has the id, the failure is detected only after the mutation: leave
\* has been called once on the former top, every scene has been removed, the
\* stack is empty when the call panics, and no enter count has changed.
C17_FailedPopUntilEmptiesStack ==
    PopUntilOfAbsentId =>
        LET old == before.scenes IN
        /\ panic # ""
        /\ scenes = <<>>
        /\ calls = << <<"leave", Last(old).inst>> >> \o PopsOf(old, Len(old), 1)
        /\ CountersAre({}, {Last(old).inst})

\* C17 witness: a failed PopUntil on two scenes that ends with an empty stack.
C17_Witness ==
    /\ PopUntilOfAbsentId
    /\ Len(before.scenes) = 2
    /\ scenes = <<>>
    /\ SumSeq(left) = SumSeq(before.left) + 1
    /\ panic # ""

\* The position of the topmost scene of st with the given id, 0 if none.
TopmostWithId(st, id) ==
    IF \E j \in 1 .. Len(st) : st[j].id = id
    THEN CHOOSE j \in 1 .. Len(st) :
            /\ st[j].id = id
            /\ \A i \in j + 1 .. Len(st) : st[i].id # id
    ELSE 0

\* C19: on a stack of 2 or more scenes, PopUntil(id) stops at the topmost
\* scene with that id; when that scene is the top itself, no scene is
\* removed, leave and then enter are called on it, once each, and the stack
\* is as before.
C19_PopUntilStopsAtTopmost ==
    (/\ trans[1] = "PopUntil"
     /\ Len(before.scenes) >= 2
     /\ TopmostWithId(before.scenes, trans[2]) # 0) =>
        LET old == before.scenes
            j   == TopmostWithId(old, trans[2])
        IN  /\ panic = ""
            /\ scenes = SubSeq(old, 1, j)
            /\ Len(SelectSeq(calls, LAMBDA e : e[1] = "pop")) = Len(old) - j
            /\ j = Len(old) =>
                  /\ scenes = old
                  /\ calls = << <<"leave", Last(old).inst>>, <<"enter", Last(old).inst>> >>
                  /\ CountersAre({Last(old).inst}, {Last(old).inst})

\* C19 witness: PopUntil of the id of the top scene, which a scene below it
\* has as well.
C19_Witness ==
    /\ trans[1] = "PopUntil"
    /\ Len(before.scenes) >= 2
    /\ Last(before.scenes).id = trans[2]
    /\ before.scenes[1].id = trans[2]
    /\ scenes = before.scenes
    /\ panic = ""

\* C18: every well-formed stream of key events (per key: press, release,
\* press, ..., beginning with a press, a press possibly repeated while the
\* key is down) is reduced by update_key without a panic, however the events
\* fall into frames.
C18_WellFormedStreamAccepted ==
    wellFormed => keysPanic = ""

\* C15: step::fixed invokes the callback at least once, goes on invoking it
\* while it returns Continue, and returns after the first Stop without
\* another invocation: the loop never ends before the callback was invoked,
\* it does not end while the latest result is Continue, and when it has
\* returned, the latest result is Stop and every result before is Continue.
C15_CallbackDrivesLoop ==
    /\ spc \in {"returned", "panicked"} => results # <<>>
    /\ (results # <<>> /\ Last(results) = "Continue") => spc # "panicked"
    /\ spc = "returned" =>
          /\ Last(results) = "Stop"
          /\ \A i \in 1 .. Len(results) - 1 : results[i] = "Continue"

-----------------------------------------------------------------------------
(* Claims about the application loop *)

\* C13: the loop stops in the first frame at whose end the scene stack is
\* empty, and stops when Event::Closed is polled: display is never called
\* with an empty stack, the loop never waits for a next frame with an empty
\* stack, no frame after the first begins with an empty stack, nothing
\* follows a Closed event, and the loop stops for no other reason.
C13_LoopStops ==
    /\ At("display") # {} => scenes # <<>>
    /\ (gpc = "idle" /\ frameNo >= 1) => scenes # <<>>
    /\ frameNo >= 2 => startScenes # <<>>
    /\ At("closed") # {} => (gpc = "stopped" /\ Last(flog)[1] = "closed")
    /\ gpc = "stopped" => (At("closed") # {} \/ scenes = <<>>)

\* C13 witness: the second frame began with a scene on the stack, emptied
\* the stack and stopped the loop, with no Closed event and no display.
C13_Witness ==
    /\ gpc = "stopped"
    /\ frameNo = 2
    /\ startScenes # <<>>
    /\ scenes = <<>>
    /\ At("closed") = {}
    /\ At("display") = {}
    /\ At("tick") # {}

\* C14: in every frame, Keys.update runs exactly once and first; every
\* update_key of the frame comes before the scene is updated; keypress and
\* then tick are delivered once, to the scene that is top of the stack at
\* that moment; at most one transition is applied; display comes last, on
\* the scene that is then top.
C14_FrameOrder ==
    frameNo >= 1 =>
        /\ flog # <<>>
        /\ At("update") = {1}
        /\ \A i \in At("update_key") \cup At("other") \cup At("closed") :
              \A j \in 1 .. Len(flog) :
                  flog[j][1] \notin {"update", "update_key", "other", "closed"} => i < j
        /\ Cardinality(At("keypress")) <= 1
        /\ Cardinality(At("tick")) <= 1
        /\ Cardinality(At("transition")) <= 1
        /\ \A i \in At("keypress") :
              /\ startScenes # <<>>
              /\ flog[i][2] = Last(startScenes).inst
              /\ i < Len(flog)
              /\ flog[i + 1] = <<"tick", flog[i][2]>>
        /\ \A i \in At("tick") : i > 1 /\ flog[i - 1][1] = "keypress"
        /\ \A i \in At("transition") : i > 1 /\ flog[i - 1][1] = "tick"
        /\ \A i \in At("display") :
              /\ i = Len(flog)
              /\ scenes # <<>>
              /\ flog[i][2] = Last(scenes).inst

\* C14 witness: a frame that reduced a key event, delivered keypress and
\* tick to the top scene, pushed a scene and displayed the new top.
C14_Witness ==
    /\ gpc = "idle"
    /\ frameNo >= 1
    /\ At("update_key") # {}
    /\ At("keypress") # {}
    /\ At("push") # {}
    /\ At("display") # {}
    /\ Last(flog)[2] # Last(startScenes).inst

-----------------------------------------------------------------------------
(* Claims about the defaults of the Scene trait *)

PolledAfter(i) == {j \in At("update_key") \cup At("other") : j > i}

\* C22 as claimed: the frame in which Event::Closed is polled is completed
\* before the loop exits: the events pending behind it are still polled, and
\* the top scene, if there is one, still gets its tick in that frame.
C22_ClosedFrameCompleted ==
    (gpc = "stopped" /\ At("closed") # {}) =>
        \A i \in At("closed") :
            /\ Cardinality(PolledAfter(i)) = flog[i][2]
            /\ startScenes # <<>> => \E j \in At("tick") : j > i

\* C22 amended: the frame in which Event::Closed is polled ends at that
\* event: the events polled before it have been handled, the events pending
\* behind it are not polled, the scenes are neither updated nor displayed in
\* that frame, the stack is as it was when the frame began, and the loop has
\* stopped.
C22_ClosedEndsFrameAtOnce ==
    At("closed") # {} =>
        /\ gpc = "stopped"
        /\ At("closed") = {Len(flog)}
        /\ At("update") = {1}
        /\ \A i \in 2 .. Len(flog) - 1 : flog[i][1] \in {"update_key", "other"}
        /\ At("keypress") \cup At("tick") \cup At("transition") \cup At("display") = {}
        /\ scenes = startScenes

\* C22 witness: Closed was polled after a key event, with events pending
\* behind it and a scene on the stack, and the loop has stopped.
C22_Witness ==
    /\ gpc = "stopped"
    /\ At("closed") # {}
    /\ Last(flog)[2] > 0
    /\ At("update_key") # {}
    /\ startScenes # <<>>
    /\ At("tick") = {}

=============================================================================
